---- MODULE Spec2Model ----
(***************************************************************************)
(* PersonaGPT chat relay: app/api/routes/chat.py and                       *)
(* app/services/chatbot.py.                                                *)
(*                                                                         *)
(* The two request handlers, send_message and reset_conversation, are      *)
(* coroutines that the server runs on one event loop.  They share the      *)
(* module-level list conversation_history.  The model follows each handler *)
(* statement by statement; `loop` is the task that holds the event loop.   *)
(* A task gives the loop up when it finishes or at an await expression.    *)
(***************************************************************************)
EXTENDS Integers, Sequences, FiniteSets, TLC

\* ---------------------------------------------------------------- bounds
MaxInFlight == 2      \* request tasks that exist at the same time
MaxRequests == 3      \* requests admitted over one run

Slots == 1..MaxInFlight
Ids   == 1..MaxRequests

\* ---------------------------------------------------------- Python values
PyStr(s) == [t |-> "str", v |-> s]
None     == [t |-> "NoneType", v |-> ""]
IsStr(x) == x.t = "str"

\* request.message values a client posts (ChatRequest.message is a str)
Messages == {PyStr(""), PyStr("ping")}

\* what client.chat.completions.create(...).choices[0].message.content
\* evaluates to when nothing raises: a text, or None
Contents == {PyStr("pong"), None}

\* exceptions raised inside get_chat_response
Failures == {[type |-> "APIConnectionError", msg |-> "Connection error."]}

NoExc == [type |-> "", msg |-> ""]
ValidationError == [type |-> "ValidationError",
                    msg  |-> "1 validation error for ChatResponse"]

\* str(e)
ExcStr(e) == e.msg

\* ------------------------------------------------------------------ turns
PERSONA == "You are PersonaGPT, a helpful and friendly AI assistant."

InitialHistory == << [role |-> "system", content |-> PyStr(PERSONA)] >>

ResetTurnOther == [role |-> "system", content |-> PyStr("You are a helpful assistant.")]
ResetTurn == [role |-> "system", content |-> PyStr(PERSONA)]

UserTurn(m) == [role |-> "user", content |-> m]

AssistantTurnAsUser(r) == [role |-> "user", content |-> r]
AssistantTurn(r) == [role |-> "assistant", content |-> r]

\* list.append
ListAppendCapped(h, x) == IF Len(h) >= 3 THEN <<h[1]>> \o SubSeq(h, 3, Len(h)) \o <<x>>
                          ELSE Append(h, x)
ListAppend(h, x) == Append(h, x)

\* list.clear
ClearNothing(h) == h
ListClear(h) == << >>

\* ---------------------------------------------------------------- replies
ReplyDetailGeneric(e) == [status |-> 500, key |-> "detail", text |-> PyStr("Internal Server Error")]
HTTP500(e) == [status |-> 500, key |-> "detail", text |-> PyStr(ExcStr(e))]

ChatResponseOK(reply) == [status |-> 200, key |-> "reply", text |-> reply]
ResetOK == [status |-> 200, key |-> "message", text |-> PyStr("Conversation reset")]
NoResponse == [status |-> 0, key |-> "", text |-> None]

\* ChatResponse(reply=...) accepts a str only
ChatResponseValid(reply) == IsStr(reply)

\* ----------------------------------------------------------- control flow
\* the except clause that catches an exception raised at pc inside the try
ExceptTargetRetry(pc) == IF pc = "waiting" THEN "l17" ELSE "l20"
ExceptTarget(pc) == "l20"

\* does a handler of this kind, about to run pc, hand the event loop back?
\* Neither handler body contains an await expression.
YieldsAtProvider(kind, pc) == kind = "send" /\ pc = "waiting"
YieldsBeforeCall(kind, pc) == kind = "send" /\ pc = "l17"
YieldsInReset(kind, pc) == kind = "reset" /\ pc = "l27"
Yields(kind, pc) == FALSE

\* ------------------------------------------------------------------ state
VARIABLES conversation_history, owner, task, loop, nextId, outcome

vars == <<conversation_history, owner, task, loop, nextId, outcome>>

IdleTask == [kind |-> "idle", pc |-> "none", id |-> 0, message |-> None,
             reply |-> None, exc |-> NoExc, raisedAt |-> "", T0 |-> << >>,
             calls |-> 0, arg |-> << >>, response |-> NoResponse]

Init ==
    /\ conversation_history = InitialHistory
    /\ owner = << 0 >>
    /\ task = [t \in Slots |-> IdleTask]
    /\ loop = 0
    /\ nextId = 1
    /\ outcome = [i \in Ids |-> "none"]

\* a task may run its next statement when it holds the loop, or the loop is free
CanRun(t) == loop = t \/ loop = 0

LoopAfter(t, kind, pc) == IF pc = "done" \/ Yields(kind, pc) THEN 0 ELSE t

\* ------------------------------------------------------- request arrival
\* requests whose handler has not started yet
Queued == {t \in Slots : task[t].pc \in {"l16", "l26"}}

\* a new request becomes the task of the lowest free slot (slots are only names)
FreeSlot(t) ==
    /\ task[t].kind = "idle"
    /\ \A u \in Slots : u < t => task[u].kind # "idle"
    /\ (nextId - 1) + Cardinality(Queued) < MaxRequests

ArriveSend(t, m) ==
    /\ FreeSlot(t)
    /\ task' = [task EXCEPT ![t] = [IdleTask EXCEPT !.kind = "send", !.pc = "l16",
                                                   !.message = m]]
    /\ UNCHANGED <<conversation_history, owner, loop, nextId, outcome>>

ArriveReset(t) ==
    /\ FreeSlot(t)
    /\ task' = [task EXCEPT ![t] = [IdleTask EXCEPT !.kind = "reset", !.pc = "l26"]]
    /\ UNCHANGED <<conversation_history, owner, loop, nextId, outcome>>

\* the server has written the response; the task is gone
Respond(t) ==
    /\ task[t].pc = "done"
    /\ task' = [task EXCEPT ![t] = IdleTask]
    /\ UNCHANGED <<conversation_history, owner, loop, nextId, outcome>>

\* ---------------------------------------------------------- send_message
\* line 16: conversation_history.append({"role": "user", ...})
SendL16(t) ==
    /\ task[t].kind = "send" /\ task[t].pc = "l16" /\ CanRun(t)
    /\ conversation_history' = ListAppend(conversation_history, UserTurn(task[t].message))
    /\ owner' = Append(owner, nextId)
    /\ task' = [task EXCEPT ![t].T0 = conversation_history, ![t].id = nextId,
                            ![t].pc = "l17"]
    /\ nextId' = nextId + 1
    /\ loop' = LoopAfter(t, "send", "l17")
    /\ UNCHANGED outcome

\* line 17, chatbot.py 8-11: the request to the provider goes out
SendL17Call(t) ==
    /\ task[t].kind = "send" /\ task[t].pc = "l17" /\ CanRun(t)
    /\ task' = [task EXCEPT ![t].calls = @ + 1, ![t].arg = conversation_history,
                            ![t].pc = "waiting"]
    /\ loop' = LoopAfter(t, "send", "waiting")
    /\ UNCHANGED <<conversation_history, owner, nextId, outcome>>

\* chatbot.py 12: the provider answered, get_chat_response returns the content
ProviderReturns(t, c) ==
    /\ task[t].kind = "send" /\ task[t].pc = "waiting" /\ CanRun(t)
    /\ task' = [task EXCEPT ![t].reply = c, ![t].pc = "l18"]
    /\ loop' = LoopAfter(t, "send", "l18")
    /\ UNCHANGED <<conversation_history, owner, nextId, outcome>>

\* chatbot.py 8-12 raise
ProviderRaises(t, e) ==
    /\ task[t].kind = "send" /\ task[t].pc = "waiting" /\ CanRun(t)
    /\ task' = [task EXCEPT ![t].exc = e, ![t].raisedAt = "l17",
                            ![t].pc = ExceptTarget("waiting")]
    /\ loop' = LoopAfter(t, "send", ExceptTarget("waiting"))
    /\ UNCHANGED <<conversation_history, owner, nextId, outcome>>

\* line 18: conversation_history.append({"role": "assistant", ...})
SendL18(t) ==
    /\ task[t].kind = "send" /\ task[t].pc = "l18" /\ CanRun(t)
    /\ conversation_history' = ListAppend(conversation_history, AssistantTurn(task[t].reply))
    /\ owner' = Append(owner, task[t].id)
    /\ task' = [task EXCEPT ![t].pc = "l19"]
    /\ loop' = LoopAfter(t, "send", "l19")
    /\ UNCHANGED <<nextId, outcome>>

\* line 19: return ChatResponse(reply=reply)
SendL19Return(t) ==
    /\ task[t].kind = "send" /\ task[t].pc = "l19" /\ CanRun(t)
    /\ ChatResponseValid(task[t].reply)
    /\ task' = [task EXCEPT ![t].response = ChatResponseOK(task[t].reply), ![t].pc = "done"]
    /\ outcome' = [outcome EXCEPT ![task[t].id] = "reply"]
    /\ loop' = LoopAfter(t, "send", "done")
    /\ UNCHANGED <<conversation_history, owner, nextId>>

\* line 19: ChatResponse(reply=reply) raises inside the try
SendL19Raise(t) ==
    /\ task[t].kind = "send" /\ task[t].pc = "l19" /\ CanRun(t)
    /\ ~ChatResponseValid(task[t].reply)
    /\ task' = [task EXCEPT ![t].exc = ValidationError, ![t].raisedAt = "l19",
                            ![t].pc = ExceptTarget("l19")]
    /\ loop' = LoopAfter(t, "send", ExceptTarget("l19"))
    /\ UNCHANGED <<conversation_history, owner, nextId, outcome>>

\* lines 20-21: except Exception as e: raise HTTPException(500, str(e))
SendL21(t) ==
    /\ task[t].kind = "send" /\ task[t].pc = "l20" /\ CanRun(t)
    /\ task' = [task EXCEPT ![t].response = HTTP500(task[t].exc), ![t].pc = "done"]
    /\ outcome' = [outcome EXCEPT ![task[t].id] = "error"]
    /\ loop' = LoopAfter(t, "send", "done")
    /\ UNCHANGED <<conversation_history, owner, nextId>>

\* ---------------------------------------------------- reset_conversation
\* line 26: conversation_history.clear()
ResetL26(t) ==
    /\ task[t].kind = "reset" /\ task[t].pc = "l26" /\ CanRun(t)
    /\ conversation_history' = ListClear(conversation_history)
    /\ owner' = SubSeq(owner, 1, Len(ListClear(conversation_history)))
    /\ task' = [task EXCEPT ![t].T0 = conversation_history, ![t].id = nextId,
                            ![t].pc = "l27"]
    /\ nextId' = nextId + 1
    /\ loop' = LoopAfter(t, "reset", "l27")
    /\ UNCHANGED outcome

\* lines 27-29: conversation_history.append({"role": "system", ...})
ResetL27(t) ==
    /\ task[t].kind = "reset" /\ task[t].pc = "l27" /\ CanRun(t)
    /\ conversation_history' = ListAppend(conversation_history, ResetTurn)
    /\ owner' = Append(owner, 0)
    /\ task' = [task EXCEPT ![t].pc = "l30"]
    /\ loop' = LoopAfter(t, "reset", "l30")
    /\ UNCHANGED <<nextId, outcome>>

\* line 30: return {"message": "Conversation reset"}
ResetL30(t) ==
    /\ task[t].kind = "reset" /\ task[t].pc = "l30" /\ CanRun(t)
    /\ task' = [task EXCEPT ![t].response = ResetOK, ![t].pc = "done"]
    /\ outcome' = [outcome EXCEPT ![task[t].id] = "reset"]
    /\ loop' = LoopAfter(t, "reset", "done")
    /\ UNCHANGED <<conversation_history, owner, nextId>>

Next ==
    \/ \E t \in Slots, m \in Messages : ArriveSend(t, m)
    \/ \E t \in Slots : ArriveReset(t)
    \/ \E t \in Slots : Respond(t)
    \/ \E t \in Slots : SendL16(t)
    \/ \E t \in Slots : SendL17Call(t)
    \/ \E t \in Slots, c \in Contents : ProviderReturns(t, c)
    \/ \E t \in Slots, e \in Failures : ProviderRaises(t, e)
    \/ \E t \in Slots : SendL18(t)
    \/ \E t \in Slots : SendL19Return(t)
    \/ \E t \in Slots : SendL19Raise(t)
    \/ \E t \in Slots : SendL21(t)
    \/ \E t \in Slots : ResetL26(t)
    \/ \E t \in Slots : ResetL27(t)
    \/ \E t \in Slots : ResetL30(t)

Spec == Init /\ [][Next]_vars

TypeOK ==
    /\ loop \in 0..MaxInFlight
    /\ nextId \in 1..(MaxRequests + 1)
    /\ Len(owner) = Len(conversation_history)

\* ------------------------------------------------------------ properties
Persona == [role |-> "system",
            content |-> [t |-> "str",
                         v |-> "You are PersonaGPT, a helpful and friendly AI assistant."]]

Roles(h) == [i \in 1..Len(h) |-> h[i].role]

IsPrefix(a, b) == Len(a) <= Len(b) /\ SubSeq(b, 1, Len(a)) = a

InFlight(t) == task[t].kind = "send" /\ task[t].pc \in {"l17", "waiting", "l18", "l19", "l20"}

\* C1: a send whose provider call returned a text r answers with r, and when it
\* answers the transcript is the one it started from followed by {user, m} and
\* {assistant, r}, the earlier turns untouched.
C1_AppendOnSuccess ==
    [][\A t \in Slots :
        (task[t].kind = "send" /\ task[t].pc = "l19" /\ IsStr(task[t].reply)
            /\ task'[t] # task[t])
        => /\ task'[t].pc = "done"
           /\ task'[t].response = [status |-> 200, key |-> "reply", text |-> task[t].reply]
           /\ conversation_history' =
                task[t].T0 \o << [role |-> "user", content |-> task[t].message],
                                 [role |-> "assistant", content |-> task[t].reply] >>]_vars

C1_Witness ==
    \E t \in Slots :
        /\ task[t].kind = "send" /\ task[t].pc = "done"
        /\ task[t].response.status = 200
        /\ task[t].response.text = PyStr("pong")
        /\ Len(task[t].T0) > 1
        /\ conversation_history = task[t].T0 \o << UserTurn(task[t].message),
                                                   AssistantTurn(PyStr("pong")) >>

\* C2: a send whose provider call raised answers with status 500 and the text of
\* the exception as detail, and when it answers the transcript is the one it
\* started from followed by the single turn {user, m}.
C2_FailureLeavesUserTurn ==
    [][\A t \in Slots :
        (task[t].kind = "send" /\ task[t].pc = "l20" /\ task[t].raisedAt = "l17"
            /\ task'[t] # task[t])
        => /\ task'[t].pc = "done"
           /\ task'[t].response = [status |-> 500, key |-> "detail",
                                   text |-> [t |-> "str", v |-> task[t].exc.msg]]
           /\ conversation_history' =
                task[t].T0 \o << [role |-> "user", content |-> task[t].message] >>]_vars

C2_Witness ==
    \E t \in Slots :
        /\ task[t].kind = "send" /\ task[t].pc = "done"
        /\ task[t].raisedAt = "l17"
        /\ task[t].response.status = 500
        /\ task[t].response.text = PyStr("Connection error.")
        /\ Len(task[t].T0) > 1
        /\ conversation_history = Append(task[t].T0, UserTurn(task[t].message))

\* C3: when a send answers, a reply goes with exactly two appended turns (user,
\* assistant) and an error answer with exactly one (the user turn).
C3_AppendCountMatchesOutcome ==
    [][\A t \in Slots :
        (task[t].kind = "send" /\ task[t].pc # "done" /\ task'[t].pc = "done")
        => /\ task'[t].response.status = 200
                => /\ Len(conversation_history') = Len(task[t].T0) + 2
                   /\ conversation_history'[Len(task[t].T0) + 1].role = "user"
                   /\ conversation_history'[Len(task[t].T0) + 2].role = "assistant"
           /\ task'[t].response.status = 500
                => /\ Len(conversation_history') = Len(task[t].T0) + 1
                   /\ conversation_history'[Len(task[t].T0) + 1].role = "user"]_vars

\* C4: the transcript starts as the single persona system turn, and every reset
\* that completes leaves it equal to that one-turn transcript, whatever it was.
C4_ResetRestoresInitial ==
    /\ conversation_history = << Persona >>
    /\ [][\A t \in Slots :
            (task[t].kind = "reset" /\ task[t].pc # "done" /\ task'[t].pc = "done")
            => conversation_history' = << Persona >>]_vars

C4_Witness ==
    \E t \in Slots :
        /\ task[t].kind = "reset" /\ task[t].pc = "done"
        /\ Len(task[t].T0) >= 3
        /\ \E i \in Ids : outcome[i] = "error"
        /\ conversation_history = InitialHistory

\* C5 as stated: a send that waits for the provider has given up the event loop.
C5_SendSuspendsWhileWaiting ==
    \A t \in Slots :
        (task[t].kind = "send" /\ task[t].pc = "waiting") => loop # t

\* C5 amended: between a send's user append and its answer no other request
\* changes the transcript, so the turns of two sends never interleave and the
\* transcript is never [system, assistant].
C5_NoInterleaving ==
    /\ [][\A t \in Slots :
            (InFlight(t) /\ conversation_history' # conversation_history)
            => task'[t].pc # task[t].pc]_vars
    /\ [](\A i \in 1..Len(conversation_history) :
            conversation_history[i].role = "assistant"
            => i > 2 /\ owner[i - 1] = owner[i])

C5_Witness ==
    \E t, u \in Slots :
        /\ task[t].kind = "send" /\ task[t].pc = "waiting"
        /\ task[u].kind = "reset" /\ task[u].pc = "l26"
        /\ Len(conversation_history) > 2

\* C6: a step that is not a step of a reset leaves the old transcript as a
\* prefix of the new one; a step that shortens the transcript empties it; with
\* no reset and no failed send, n answered sends leave 1 + 2n turns.
IsResetStep == \E t \in Slots : task[t].kind = "reset" /\ task'[t].pc # task[t].pc

NoResetYet ==
    /\ \A i \in Ids : outcome[i] # "reset"
    /\ \A t \in Slots : task[t].kind = "reset" => task[t].pc = "l26"

Answered == Cardinality({i \in Ids : outcome[i] = "reply"})

C6_AppendOnlyExceptReset ==
    /\ [][/\ ~IsResetStep => IsPrefix(conversation_history, conversation_history')
          /\ Len(conversation_history') < Len(conversation_history)
                => IsResetStep /\ conversation_history' = << >>]_vars
    /\ []((/\ NoResetYet
           /\ \A i \in Ids : outcome[i] \in {"none", "reply"}
           /\ \A t \in Slots : task[t].kind = "send" => task[t].pc \in {"l16", "done"})
          => Len(conversation_history) = 1 + 2 * Answered)

C6_Witness ==
    /\ NoResetYet
    /\ Answered = 2
    /\ Len(conversation_history) = 5
    /\ \A t \in Slots : task[t].kind = "idle"

\* C7: a send calls the provider once; after the provider raised, the send's
\* next step answers 500 with the exception's text, with no second call and no
\* change of the transcript.
C7_NoRetry ==
    /\ [](\A t \in Slots :
            /\ task[t].calls <= 1
            /\ (task[t].kind = "send" /\ task[t].pc = "done") => task[t].calls = 1)
    /\ [][\A t \in Slots :
            (task[t].kind = "send" /\ task[t].raisedAt = "l17" /\ task'[t] # task[t]
                /\ task[t].pc # "done")
            => /\ task'[t].pc = "done"
               /\ task'[t].calls = 1
               /\ task'[t].response.status = 500
               /\ task'[t].response.text.v = task[t].exc.msg
               /\ conversation_history' = conversation_history]_vars

C7_Witness ==
    \E t \in Slots :
        /\ task[t].kind = "send" /\ task[t].pc = "done"
        /\ task[t].raisedAt = "l17" /\ task[t].exc.type = "APIConnectionError"
        /\ task[t].calls = 1
        /\ task[t].response.status = 500

\* C8: the transcript a send hands to the provider is the shared transcript at
\* that moment, begins with the system turn and ends with that send's own user
\* turn.
C8_ProviderSeesOwnMessageLast ==
    [][\A t \in Slots :
        (task[t].kind = "send" /\ task[t].pc = "l17" /\ task'[t].pc = "waiting")
        => /\ task'[t].arg = conversation_history
           /\ Len(task'[t].arg) >= 2
           /\ task'[t].arg[1] = Persona
           /\ task'[t].arg[Len(task'[t].arg)] =
                [role |-> "user", content |-> task[t].message]
           /\ owner[Len(owner)] = task[t].id]_vars

C8_Witness ==
    \E t, u \in Slots :
        /\ task[t].kind = "send" /\ task[t].pc = "waiting"
        /\ Len(task[t].arg) > 2
        /\ u # t /\ task[u].kind # "idle" /\ task[u].pc # "done"

\* C9: whenever a send can run a statement that reads or extends the
\* transcript, the transcript is non-empty, begins with the persona system
\* turn and has no other system turn.
SendObserves ==
    \E t \in Slots :
        /\ task[t].kind = "send"
        /\ task[t].pc \in {"l16", "l17", "waiting", "l18"}
        /\ CanRun(t)

WellFormed ==
    /\ Len(conversation_history) >= 1
    /\ conversation_history[1] = Persona
    /\ \A i \in 2..Len(conversation_history) : conversation_history[i].role # "system"

C9_SystemTurnFirst == SendObserves => WellFormed

C9_Witness ==
    \E t, u \in Slots :
        /\ task[t].kind = "reset" /\ task[t].pc = "l27"
        /\ conversation_history = << >>
        /\ task[u].kind = "send" /\ task[u].pc = "l16"

\* C10: every assistant turn directly follows the user turn of the same send,
\* assistant turns never outnumber user turns, and between handlers a user
\* turn with no assistant turn after it belongs to a send that answered 500.
CountRole(r) == Cardinality({i \in 1..Len(conversation_history) :
                                conversation_history[i].role = r})

C10_AssistantFollowsUser ==
    /\ \A i \in 1..Len(conversation_history) :
            conversation_history[i].role = "assistant"
            => /\ i > 1
               /\ conversation_history[i - 1].role = "user"
               /\ owner[i - 1] = owner[i]
    /\ CountRole("assistant") <= CountRole("user")
    /\ loop = 0 =>
         \A i \in 1..Len(conversation_history) :
            (/\ conversation_history[i].role = "user"
             /\ (i = Len(conversation_history)
                    \/ conversation_history[i + 1].role # "assistant"))
            => outcome[owner[i]] = "error"

C10_Witness ==
    /\ loop = 0
    /\ Roles(conversation_history) = << "system", "user", "user", "assistant" >>
    /\ \E t \in Slots : task[t].kind = "reset" /\ task[t].pc = "l26"
====
